---- MODULE Spec2Model ----
(***************************************************************************)
(* Model of organizer.py: the scan, the per-file loop of organize() with   *)
(* its dedupe policies, destination resolution, collision suffixes and     *)
(* filesystem actions, and the report that organize() returns.             *)
(*                                                                         *)
(* A path is a record [dir, name]: dir is the sequence of directory        *)
(* components, name is the file name split as pathlib splits it into stem  *)
(* and suffix.  The stem is kept as a base plus the list of "_n" counters  *)
(* appended to it, so that the source name "a_1.txt" and the disambiguated *)
(* name of "a.txt" are the same path, as they are the same string.         *)
(***************************************************************************)
EXTENDS Integers, Sequences, FiniteSets, TLC

\* ---- bounds of the model ------------------------------------------------
MaxFiles == 2      \* files present in the input tree
MaxStale == 1      \* files present under the output root before the first run
MaxFaults == 1     \* I/O operations that fail
MaxRuns == 2       \* consecutive calls of organize()

\* ---- paths ---------------------------------------------------------------
InputDir == <<"in">>
OutputDir == <<"out">>

NoName == [hidden |-> FALSE, base |-> "", sfx |-> <<>>, ext |-> ""]
None == [dir |-> <<>>, name |-> NoName]

MkName(h, b, s, e) == [hidden |-> h, base |-> b, sfx |-> s, ext |-> e]
MkPath(d, n) == [dir |-> d, name |-> n]

\* Path.parent
Parent(p) == p.dir

\* f"{stem}_{n}{suffix}" in the directory of dest
WithCounter(dest, n) ==
    MkPath(Parent(dest), [dest.name EXCEPT !.sfx = Append(@, n)])

\* order of the name components that occur, as Python compares the strings
Rank(s) ==
    CASE s = "" -> 0
      [] s = ".h" -> 1
      [] s = "2023-05" -> 2
      [] s = "2023-06" -> 3
      [] s = "Duplicates" -> 4
      [] s = "a" -> 5
      [] s = "b" -> 6
      [] s = "in" -> 7
      [] s = "no_ext" -> 8
      [] s = "out" -> 9
      [] s = "sub" -> 10
      [] s = "txt" -> 11
      [] OTHER -> 12

\* the parts of a path as comparable keys: one key per component
Parts(p) == [k \in 1..Len(p.dir) |-> Rank(p.dir[k])] \o <<Rank(p.name.base)>>

RECURSIVE SeqLess(_, _)
SeqLess(s, t) ==
    IF s = <<>> THEN t # <<>>
    ELSE IF t = <<>> THEN FALSE
    ELSE IF Head(s) # Head(t) THEN Head(s) < Head(t)
    ELSE SeqLess(Tail(s), Tail(t))

\* Path.__lt__
PathLess(p, q) == SeqLess(Parts(p), Parts(q))

\* sorted(...) of a set of paths
RECURSIVE Sorted(_)
Sorted(S) ==
    IF S = {} THEN <<>>
    ELSE LET m == CHOOSE x \in S : \A y \in S \ {x} : PathLess(x, y)
         IN <<m>> \o Sorted(S \ {m})

IsPrefix(d, e) == Len(d) <= Len(e) /\ SubSeq(e, 1, Len(d)) = d

\* ---- the file contents and their digests ----------------------------------
Contents == {"c1", "c2", "old", "partial"}

\* hashlib.sha256 of the whole content: equal digests exactly for equal contents
Digest(c) ==
    CASE c = "c1" -> "h1"
      [] c = "c2" -> "h2"
      [] c = "old" -> "h3"
      [] OTHER -> "h4"

\* ---- state -----------------------------------------------------------------
VARIABLES
    args,             \* the argparse.Namespace passed to organize()
    fs,               \* regular files: path -> [content, mtime]
    dirs,             \* directories that exist
    io,               \* outcomes of I/O operations observed so far
    run,              \* number of the current call of organize()
    reports,          \* the reports returned so far, in order
    pc,               \* position in organize()
    files,            \* the sorted scan list
    i,                \* index of the file being processed
    seen_hashes,      \* hash -> first-occurrence source, as a set of [hash, src]
    actions,          \* ActionRecords
    errors,           \* ErrorRecords
    folders_created,
    totals,
    file_hash,        \* locals of the loop body, between its steps
    dest,
    action_label,
    fs0,              \* files and directories at the start of the current call
    dirs0

vars == <<args, fs, dirs, io, run, reports, pc, files, i, seen_hashes, actions,
          errors, folders_created, totals, file_hash, dest, action_label, fs0, dirs0>>

env == <<args, run, reports, fs0, dirs0>>
locals == <<file_hash, dest, action_label>>
report_state == <<seen_hashes, actions, errors, folders_created, totals>>

\* ---- the values organize() is called with ----------------------------------
Strategies == {"type", "date", "type-date"}
\* the values of args.by that may reach organize()
ByValues == Strategies \cup {"bogus"}
DedupePolicies == {"off", "move", "delete"}
\* the values of args.dedupe that may reach organize()
DedupeValues == DedupePolicies \cup {"bogus"}

\* st_mtime values: 2023-05-10 and 2023-06-01, 00:00 UTC
Mtimes == <<1683676800, 1685577600>>
May2023 == Mtimes[1]
Jun2023 == Mtimes[2]

\* the files the input tree is drawn from
InputUniverse == {
    [path |-> MkPath(InputDir, MkName(FALSE, "a", <<>>, "")),
     content |-> "c1", mtime |-> May2023],
    [path |-> MkPath(InputDir, MkName(FALSE, "b", <<>>, "TXT")),
     content |-> "c1", mtime |-> Jun2023],
    [path |-> MkPath(InputDir \o <<"sub">>, MkName(FALSE, "a", <<>>, "")),
     content |-> "c2", mtime |-> May2023],
    [path |-> MkPath(InputDir, MkName(TRUE, ".h", <<>>, "txt")),
     content |-> "c2", mtime |-> May2023] }

\* the files the output root may hold before the first run
StaleUniverse == {
    [path |-> MkPath(OutputDir \o <<"no_ext">>, MkName(FALSE, "a", <<>>, "")),
     content |-> "old", mtime |-> May2023],
    [path |-> MkPath(OutputDir \o <<"no_ext">>, MkName(FALSE, "a", <<2>>, "")),
     content |-> "old", mtime |-> May2023] }

\* a directory and all its ancestors
Ancestors(d) == {SubSeq(d, 1, k) : k \in 1..Len(d)}

TreeOf(F) == [p \in {f.path : f \in F} |->
                LET f == CHOOSE g \in F : g.path = p
                IN [content |-> f.content, mtime |-> f.mtime]]

ZeroTotals(n) == [scanned_files |-> n, copied |-> 0, moved |-> 0,
                  skipped_duplicates |-> 0, duplicates_moved |-> 0, errors |-> 0]

\* organize() called with a strategy of By and a dedupe policy of Dedupe
InitWith(By, Dedupe) ==
    /\ args \in [by : By, recursive : BOOLEAN, dedupe : Dedupe,
                 dry_run : BOOLEAN, move : BOOLEAN, clean_output : BOOLEAN]
    /\ \E In \in SUBSET InputUniverse, Out \in SUBSET StaleUniverse :
          /\ Cardinality(In) <= MaxFiles
          /\ Cardinality(Out) <= MaxStale
          /\ fs = TreeOf(In \cup Out)
          /\ dirs = {InputDir} \cup UNION {Ancestors(Parent(f.path)) : f \in In \cup Out}
    /\ io = {}
    /\ run = 1
    /\ reports = <<>>
    /\ pc = "clean"
    /\ files = <<>>
    /\ i = 1
    /\ seen_hashes = {}
    /\ actions = <<>>
    /\ errors = <<>>
    /\ folders_created = {}
    /\ totals = ZeroTotals(0)
    /\ file_hash = ""
    /\ dest = None
    /\ action_label = ""
    /\ fs0 = fs
    /\ dirs0 = dirs

\* organize() called through main(): build_parser has validated by and dedupe
Init == InitWith(Strategies, DedupePolicies)

\* organize() called directly, by a caller that validates nothing
InitConfig == InitWith(ByValues, DedupeValues)

\* ---- hashing -----------------------------------------------------------------
\* sha256(path): the digest of the content the file holds now
sha256(path) == Digest(fs[path].content)

\* ---- destination helpers -------------------------------------------------------
\* str.lower() on the extensions that occur
Lower(e) == IF e = "TXT" THEN "txt" ELSE e

_ext_folder(path) ==
    LET e == Lower(path.name.ext) IN IF e = "" THEN "no_ext" ELSE e

\* strftime("%Y-%m") of a UTC timestamp
YearMonth(t) == IF t < Mtimes[2] THEN "2023-05" ELSE "2023-06"

_date_folder(path) == YearMonth(fs[path].mtime)

\* dest_for: None stands for the ValueError of an unknown strategy
dest_for(path, output, by) ==
    LET ext == _ext_folder(path)
        date == _date_folder(path)
    IN CASE by = "type" -> MkPath(output \o <<ext>>, path.name)
         [] by = "date" -> MkPath(output \o <<date>>, path.name)
         [] by = "type-date" -> MkPath(output \o <<ext, date>>, path.name)
         [] OTHER -> None

\* Path.exists() against the files that exist now
\* existence is looked up in a view taken when the run began
ExistsAtStart == DOMAIN fs0
\* Path.exists() on the filesystem as it is at the call
Exists == DOMAIN fs

RECURSIVE FirstUnused(_, _, _)
FirstUnused(existing, d, n) ==
    LET candidate == WithCounter(d, n)
    IN IF candidate \notin existing THEN candidate
       ELSE FirstUnused(existing, d, n + 1)

\* the destination is used without looking for it
SafeDestUnchecked(existing, d) == d

\* the counter is appended once, whether or not that name is taken
SafeDestOnce(existing, d) == IF d \notin existing THEN d ELSE WithCounter(d, 1)

\* safe_dest against a given set of existing paths
SafeDest(existing, d) ==
    IF d \notin existing THEN d ELSE FirstUnused(existing, d, 1)

safe_dest(d) == SafeDest(Exists, d)

\* ---- core logic ------------------------------------------------------------------
collect_files(input_dir, recursive) ==
    Sorted({p \in DOMAIN fs :
              /\ IF recursive THEN IsPrefix(input_dir, p.dir) ELSE p.dir = input_dir
              /\ ~p.name.hidden})

UnderOutput(p) == IsPrefix(OutputDir, p.dir)

\* the outcomes an I/O operation on src may have: the one already observed for
\* it, or else success or one of the given failures
Known(s, op) == {r \in io : r.src = s /\ r.op = op}
NFail == Cardinality({r \in io : r.out # "ok"})
Outcomes(s, op, failures) ==
    IF Known(s, op) # {} THEN {r.out : r \in Known(s, op)}
    ELSE {"ok"} \cup (IF NFail < MaxFaults THEN failures ELSE {})
Outcome(s, op, out) == [src |-> s, op |-> op, out |-> out]
Note(s, op, out) == io \cup {Outcome(s, op, out)}

src == files[i]
InLoop == pc = "loop" /\ i <= Len(files)

IsDup(h) == \E e \in seen_hashes : e.hash = h
FirstOf(h) == (CHOOSE e \in seen_hashes : e.hash = h).src

ResetLocals == file_hash' = "" /\ dest' = None /\ action_label' = ""

\* the handler re-raises instead of recording
ExceptPropagates(text) ==
    /\ pc' = "raised"
    /\ UNCHANGED <<errors, totals, i>>
    /\ ResetLocals

\* lines 155-157: the handler of the loop body
Except(text) ==
    /\ errors' = Append(errors, [source |-> src, error |-> text])
    /\ totals' = [totals EXCEPT !.errors = @ + 1]
    /\ i' = i + 1
    /\ pc' = "loop"
    /\ ResetLocals

\* every placed file is counted as copied
CountOfCopied(label) == "copied"

\* lines 141-153: append the ActionRecord and count it
CountOf(label) ==
    IF label = "duplicate_moved" THEN "duplicates_moved"
    ELSE IF label = "move" THEN "moved" ELSE "copied"

Record(d, label, h) ==
    /\ actions' = Append(actions, [source |-> src, dest |-> d, action |-> label,
                                   reason |-> None, hash |-> h])
    /\ totals' = [totals EXCEPT ![CountOf(label)] = @ + 1]
    /\ i' = i + 1
    /\ pc' = "loop"
    /\ ResetLocals

\* ---- the conditions organize() branches on -----------------------------------
\* line 83
ShouldClean == args.clean_output /\ ~args.dry_run /\ OutputDir \in dirs
\* the skip policy is compared with the wrong literal
IsSkipWrongLiteral(is_dup) == is_dup /\ args.dedupe = "skip"
\* line 110
IsSkip(is_dup) == is_dup /\ args.dedupe = "delete"
\* the Duplicates branch forgets the policy
ToDuplicatesAnyPolicy(is_dup) == is_dup
\* line 121
ToDuplicates(is_dup) == is_dup /\ args.dedupe = "move"
\* the dry-run flag is not consulted
PerformsAlways == TRUE
\* line 130
Performs == ~args.dry_run
\* in move mode a duplicate is relocated like any other file
IsMoveAnyLabel(label) == args.move
\* line 132
IsMove(label) == args.move /\ label # "duplicate_moved"
\* the source of a duplicate is removed in copy mode too
UnlinksSourceAnyMode(label) == label = "duplicate_moved"
\* line 138
UnlinksSource(label) == label = "duplicate_moved" /\ args.move

\* ---- filesystem effects ----------------------------------------------------------
Put(f, p, entry) == [q \in DOMAIN f \cup {p} |-> IF q = p THEN entry ELSE f[q]]
Remove(f, p) == [q \in DOMAIN f \ {p} |-> f[q]]

\* shutil.rmtree(output_dir)
\* the tree is left as it was
RmtreeKeepsFiles(f) == f
RmtreeFiles(f) == [q \in {r \in DOMAIN f : ~UnderOutput(r)} |-> f[q]]
RmtreeDirs(D) == {d \in D : ~IsPrefix(OutputDir, d)}

\* dest.parent.mkdir(parents=True, exist_ok=True)
Mkdirs(D, d) == D \cup Ancestors(d)

\* shutil.copy2: content and modification time
Copy2(f, s, d) == Put(f, d, f[s])
\* the source is removed and nothing is written
MoveDropsFile(f, s, d) == Remove(f, s)
\* shutil.move within one filesystem
Move(f, s, d) == Remove(Put(f, d, f[s]), s)
\* a copy that fails while writing leaves what it wrote
PartialCopy(f, d) == Put(f, d, [content |-> "partial", mtime |-> Mtimes[2]])

RootPath == MkPath(OutputDir, NoName)

\* ---- organize(), step by step ------------------------------------------------------
\* lines 82-84: the clean-output step deletes the output root, or does nothing
CleanOutput ==
    /\ pc = "clean"
    /\ IF ShouldClean
       THEN /\ "ok" \in Outcomes(RootPath, "rmtree", {"fail"})
            /\ io' = Note(RootPath, "rmtree", "ok")
            /\ fs' = RmtreeFiles(fs)
            /\ dirs' = RmtreeDirs(dirs)
       ELSE UNCHANGED <<fs, dirs, io>>
    /\ pc' = "scan"
    /\ UNCHANGED <<env, files, i, report_state, locals>>

\* line 84 raises: the exception leaves organize()
CleanOutputFail ==
    /\ pc = "clean"
    /\ ShouldClean
    /\ "fail" \in Outcomes(RootPath, "rmtree", {"fail"})
    /\ io' = Note(RootPath, "rmtree", "fail")
    /\ pc' = "raised"
    /\ UNCHANGED <<env, fs, dirs, files, i, report_state, locals>>

\* lines 86-99
Scan ==
    /\ pc = "scan"
    /\ files' = collect_files(InputDir, args.recursive)
    /\ seen_hashes' = {}
    /\ actions' = <<>>
    /\ errors' = <<>>
    /\ folders_created' = {}
    /\ totals' = ZeroTotals(Len(files'))
    /\ i' = 1
    /\ pc' = "loop"
    /\ UNCHANGED <<env, fs, dirs, io, locals>>

\* line 103 raises
Sha256Fail ==
    /\ InLoop
    /\ "fail" \in Outcomes(src, "hash", {"fail"})
    /\ io' = Note(src, "hash", "fail")
    /\ Except("hash")
    /\ UNCHANGED <<env, fs, dirs, files, seen_hashes, actions, folders_created>>

\* the first occurrence is never registered
\* the entry of a hash is overwritten by every file that produces it
RegisterLatest(h) == {e \in seen_hashes : e.hash # h} \cup {[hash |-> h, src |-> src]}
RegisterNothing(h) == seen_hashes

\* lines 106-108
Register(h) ==
    IF IsDup(h) THEN seen_hashes ELSE seen_hashes \cup {[hash |-> h, src |-> src]}

\* lines 103-119: a duplicate under dedupe "delete" is recorded and skipped
SkipDuplicate ==
    /\ InLoop
    /\ "ok" \in Outcomes(src, "hash", {"fail"})
    /\ LET h == sha256(src) IN
         /\ IsSkip(IsDup(h))
         /\ seen_hashes' = Register(h)
         /\ actions' = Append(actions, [source |-> src, dest |-> None, action |-> "skipped",
                                        reason |-> FirstOf(h), hash |-> h])
    /\ io' = Note(src, "hash", "ok")
    /\ totals' = [totals EXCEPT !.skipped_duplicates = @ + 1]
    /\ i' = i + 1
    /\ UNCHANGED <<env, fs, dirs, pc, files, errors, folders_created, locals>>

\* lines 103-125: the hash is registered, then dest_for raises (stat of the
\* source, or an unknown strategy)
DestForFail ==
    /\ InLoop
    /\ "ok" \in Outcomes(src, "hash", {"fail"})
    /\ LET h == sha256(src) IN
         /\ ~IsSkip(IsDup(h))
         /\ ~ToDuplicates(IsDup(h))
         /\ seen_hashes' = Register(h)
    /\ \/ /\ "fail" \in Outcomes(src, "stat", {"fail"})
          /\ io' = io \cup {Outcome(src, "hash", "ok"), Outcome(src, "stat", "fail")}
          /\ Except("stat")
       \/ /\ "ok" \in Outcomes(src, "stat", {"fail"})
          /\ dest_for(src, OutputDir, args.by) = None
          /\ io' = io \cup {Outcome(src, "hash", "ok"), Outcome(src, "stat", "ok")}
          /\ Except("Unknown --by value")
    /\ UNCHANGED <<env, fs, dirs, files, actions, folders_created>>

\* lines 121-126: the destination and the action label
Label(is_dup) ==
    IF ToDuplicates(is_dup) THEN "duplicate_moved"
    ELSE IF args.move THEN "move" ELSE "copy"

Candidate(is_dup) ==
    IF ToDuplicates(is_dup) THEN MkPath(OutputDir \o <<"Duplicates">>, src.name)
    ELSE dest_for(src, OutputDir, args.by)

\* lines 103-129, and 141-153 in a dry run
ChooseDest ==
    /\ InLoop
    /\ "ok" \in Outcomes(src, "hash", {"fail"})
    /\ LET h == sha256(src)
           is_dup == IsDup(h)
           d == safe_dest(Candidate(is_dup))
       IN /\ ~IsSkip(is_dup)
          /\ IF ToDuplicates(is_dup)
             THEN io' = Note(src, "hash", "ok")
             ELSE /\ "ok" \in Outcomes(src, "stat", {"fail"})
                  /\ Candidate(is_dup) # None
                  /\ io' = io \cup {Outcome(src, "hash", "ok"), Outcome(src, "stat", "ok")}
          /\ seen_hashes' = Register(h)
          /\ folders_created' = folders_created \cup {Parent(d)}
          /\ IF Performs
             THEN /\ file_hash' = h
                  /\ dest' = d
                  /\ action_label' = Label(is_dup)
                  /\ pc' = "mkdir"
                  /\ UNCHANGED <<actions, totals, i>>
             ELSE Record(d, Label(is_dup), h)
    /\ UNCHANGED <<env, fs, dirs, files, errors>>

\* line 131
Mkdir ==
    /\ pc = "mkdir"
    /\ "ok" \in Outcomes(src, "mkdir", {"fail"})
    /\ io' = Note(src, "mkdir", "ok")
    /\ dirs' = Mkdirs(dirs, Parent(dest))
    /\ pc' = "transfer"
    /\ UNCHANGED <<env, fs, files, i, report_state, locals>>

\* line 131 raises
MkdirFail ==
    /\ pc = "mkdir"
    /\ "fail" \in Outcomes(src, "mkdir", {"fail"})
    /\ io' = Note(src, "mkdir", "fail")
    /\ Except("mkdir")
    /\ UNCHANGED <<env, fs, dirs, files, seen_hashes, actions, folders_created>>

\* lines 132-133 and 141-153
MoveFile ==
    /\ pc = "transfer"
    /\ IsMove(action_label)
    /\ "ok" \in Outcomes(src, "move", {"fail"})
    /\ io' = Note(src, "move", "ok")
    /\ fs' = Move(fs, src, dest)
    /\ Record(dest, action_label, file_hash)
    /\ UNCHANGED <<env, dirs, files, seen_hashes, errors, folders_created>>

\* line 133 raises
MoveFail ==
    /\ pc = "transfer"
    /\ IsMove(action_label)
    /\ "fail" \in Outcomes(src, "move", {"fail"})
    /\ io' = Note(src, "move", "fail")
    /\ Except("move")
    /\ UNCHANGED <<env, fs, dirs, files, seen_hashes, actions, folders_created>>

\* lines 134-135, and 141-153 unless the source is still to be unlinked
CopyFile ==
    /\ pc = "transfer"
    /\ ~IsMove(action_label)
    /\ "ok" \in Outcomes(src, "copy", {"fail", "partial"})
    /\ io' = Note(src, "copy", "ok")
    /\ fs' = Copy2(fs, src, dest)
    /\ IF UnlinksSource(action_label)
       THEN /\ pc' = "unlink"
            /\ UNCHANGED <<actions, totals, i, locals>>
       ELSE Record(dest, action_label, file_hash)
    /\ UNCHANGED <<env, dirs, files, seen_hashes, errors, folders_created>>

\* line 135 raises: before the destination is created, or while writing it
CopyFail ==
    /\ pc = "transfer"
    /\ ~IsMove(action_label)
    /\ \E out \in Outcomes(src, "copy", {"fail", "partial"}) \ {"ok"} :
          /\ io' = Note(src, "copy", out)
          /\ fs' = IF out = "partial" THEN PartialCopy(fs, dest) ELSE fs
    /\ Except("copy")
    /\ UNCHANGED <<env, dirs, files, seen_hashes, actions, folders_created>>

\* lines 138-139 and 141-153
UnlinkSource ==
    /\ pc = "unlink"
    /\ "ok" \in Outcomes(src, "unlink", {"fail"})
    /\ io' = Note(src, "unlink", "ok")
    /\ fs' = Remove(fs, src)
    /\ Record(dest, action_label, file_hash)
    /\ UNCHANGED <<env, dirs, files, seen_hashes, errors, folders_created>>

\* line 139 raises
UnlinkFail ==
    /\ pc = "unlink"
    /\ "fail" \in Outcomes(src, "unlink", {"fail"})
    /\ io' = Note(src, "unlink", "fail")
    /\ Except("unlink")
    /\ UNCHANGED <<env, fs, dirs, files, seen_hashes, actions, folders_created>>

\* ---- the report -----------------------------------------------------------------------
\* the folder that holds the file is taken, not the first one below the root
TopFolderParent(d) == d.dir[Len(d.dir)]
\* lines 164-168
TopFolder(d) ==
    IF UnderOutput(d)
    THEN IF Len(d.dir) > Len(OutputDir) THEN d.dir[Len(OutputDir) + 1] ELSE d.name.base
    ELSE "other"

\* lines 160-169: the fold over the ActionRecords
RECURSIVE FolderCounts(_)
FolderCounts(as) ==
    IF as = <<>> THEN [f \in {} |-> 0]
    ELSE LET rest == FolderCounts(SubSeq(as, 1, Len(as) - 1))
             entry == as[Len(as)]
             top == TopFolder(entry.dest)
         IN IF entry.dest = None THEN rest
            ELSE [f \in DOMAIN rest \cup {top} |->
                    (IF f \in DOMAIN rest THEN rest[f] ELSE 0) + (IF f = top THEN 1 ELSE 0)]

\* sum(folder_counts.values())
RECURSIVE SumOver(_, _)
SumOver(fc, keys) ==
    IF keys = {} THEN 0
    ELSE LET k == CHOOSE x \in keys : TRUE IN fc[k] + SumOver(fc, keys \ {k})

\* lines 171-174
Breakdown(as) ==
    LET fc == FolderCounts(as)
    IN [counts |-> fc, total_files_in_output |-> SumOver(fc, DOMAIN fc)]

\* sorted(folders_created)
RECURSIVE SortedDirs(_)
SortedDirs(S) ==
    IF S = {} THEN <<>>
    ELSE LET m == CHOOSE x \in S : \A y \in S \ {x} :
                     SeqLess([k \in 1..Len(x) |-> Rank(x[k])], [k \in 1..Len(y) |-> Rank(y[k])])
         IN <<m>> \o SortedDirs(S \ {m})

\* lines 177-185
Report ==
    [settings |-> args,
     totals |-> totals,
     folders_created |-> SortedDirs(folders_created),
     breakdown |-> Breakdown(actions),
     files |-> actions,
     errors |-> errors]

\* lines 159-185: the loop is over, the report is built and returned
Finish ==
    /\ pc = "loop"
    /\ i > Len(files)
    /\ reports' = Append(reports, Report)
    /\ pc' = "done"
    /\ UNCHANGED <<args, run, fs0, dirs0, fs, dirs, io, files, i, report_state, locals>>

\* organize() is called again with the same arguments, as a dry run or not,
\* after a dry run
Rerun ==
    /\ pc = "done"
    /\ run < MaxRuns
    /\ args.dry_run
    /\ \E d \in BOOLEAN : args' = [args EXCEPT !.dry_run = d]
    /\ run' = run + 1
    /\ fs0' = fs
    /\ dirs0' = dirs
    /\ pc' = "clean"
    /\ files' = <<>>
    /\ i' = 1
    /\ seen_hashes' = {}
    /\ actions' = <<>>
    /\ errors' = <<>>
    /\ folders_created' = {}
    /\ totals' = ZeroTotals(0)
    /\ UNCHANGED <<reports, fs, dirs, io, locals>>

Next ==
    \/ CleanOutput
    \/ CleanOutputFail
    \/ Scan
    \/ Sha256Fail
    \/ SkipDuplicate
    \/ DestForFail
    \/ ChooseDest
    \/ Mkdir
    \/ MkdirFail
    \/ MoveFile
    \/ MoveFail
    \/ CopyFile
    \/ CopyFail
    \/ UnlinkSource
    \/ UnlinkFail
    \/ Finish
    \/ Rerun

Spec == Init /\ [][Next]_vars

\* the runs of organize() on settings no parser has checked
SpecConfig == InitConfig /\ [][Next]_vars

TypeOK ==
    /\ pc \in {"clean", "scan", "loop", "mkdir", "transfer", "unlink", "done", "raised"}
    /\ i \in 1..(Len(files) + 1)
    /\ run \in 1..MaxRuns
    /\ Len(reports) <= run

\* ---- what the claims speak about ------------------------------------------------------
Running == pc \in {"loop", "mkdir", "transfer", "unlink", "done"}
Done == pc = "done"

\* the scanned files already processed
Processed == IF Running THEN 1..(i - 1) ELSE {}

ActionsOf(f) == {k \in 1..Len(actions) : actions[k].source = f}
ErrorsOf(f) == {k \in 1..Len(errors) : errors[k].source = f}
ActionOf(f) == actions[CHOOSE k \in ActionsOf(f) : TRUE]

\* an I/O operation on f has failed, or succeeded
Failed(f) == \E r \in io : r.src = f /\ r.out # "ok"
HashedOK(f) == Outcome(f, "hash", "ok") \in io

\* the content a scanned file held when the run began
Content0(f) == fs0[f].content

\* the earlier files of the scan order that were hashed and hold the content of files[k]
EarlierSame(k) ==
    {l \in 1..(k - 1) : HashedOK(files[l]) /\ Content0(files[l]) = Content0(files[k])}

\* the folder the strategy gives a file
StrategyDir(f) ==
    LET e == IF f.name.ext = "" THEN "no_ext" ELSE Lower(f.name.ext)
        m == IF fs0[f].mtime = Mtimes[1] THEN "2023-05" ELSE "2023-06"
    IN CASE args.by = "type" -> OutputDir \o <<e>>
         [] args.by = "date" -> OutputDir \o <<m>>
         [] args.by = "type-date" -> OutputDir \o <<e, m>>
         [] OTHER -> <<>>
DuplicatesDir == OutputDir \o <<"Duplicates">>

\* d is f's name, possibly with counters appended to the stem, in directory dir
NamedAfter(d, f, dir) ==
    /\ d.dir = dir
    /\ d.name.base = f.name.base
    /\ d.name.ext = f.name.ext
    /\ Len(d.name.sfx) >= Len(f.name.sfx)
    /\ SubSeq(d.name.sfx, 1, Len(f.name.sfx)) = f.name.sfx

CountActions(label) == Cardinality({k \in 1..Len(actions) : actions[k].action = label})

\* C1: a failure while processing one file is recorded once and never leaves
\* organize(): every processed file has exactly one record, a file on which an
\* operation failed has one ErrorRecord and no ActionRecord, totals.errors counts
\* the ErrorRecords, the loop goes on to the end of the scan list and a report is
\* returned; only the clean-output step can raise, before any file is scanned.
C1_FailuresIsolated ==
    /\ totals.errors = Len(errors)
    /\ Running => Len(actions) + Len(errors) = i - 1
    /\ \A k \in Processed :
          /\ Cardinality(ActionsOf(files[k])) + Cardinality(ErrorsOf(files[k])) = 1
          /\ Failed(files[k]) => Cardinality(ErrorsOf(files[k])) = 1
    /\ Done => i = Len(files) + 1 /\ Len(reports) = run
    /\ pc = "raised" => /\ files = <<>>
                        /\ errors = <<>>
                        /\ Outcome(RootPath, "rmtree", "fail") \in io

\* a file failed and a later file of the scan order was still placed
C1_Witness ==
    /\ Done
    /\ \E k \in 1..Len(files), l \in 1..Len(files) :
          /\ k < l
          /\ Failed(files[k])
          /\ ErrorsOf(files[k]) # {}
          /\ ActionsOf(files[l]) # {}

PlainLabel == IF args.move THEN "move" ELSE "copy"

\* C2 as stated, for the files that are recorded: under dedupe "move" the first
\* file in scan order of every set of identical files gets the strategy
\* destination with action copy or move, and every later one a destination
\* directly under Duplicates with action duplicate_moved.
C2_AsStated ==
    (Done /\ args.dedupe = "move" /\ args.by \in Strategies) =>
        \A k \in 1..Len(files) :
           LET f == files[k]
               first == \A l \in 1..(k - 1) : Content0(files[l]) # Content0(f)
           IN \A n \in ActionsOf(f) :
                 IF first
                 THEN /\ actions[n].action \in {"copy", "move"}
                      /\ NamedAfter(actions[n].dest, f, StrategyDir(f))
                 ELSE /\ actions[n].action = "duplicate_moved"
                      /\ NamedAfter(actions[n].dest, f, DuplicatesDir)

\* C2: under dedupe "move", among the files of identical content that were
\* hashed, the first in scan order gets the strategy destination with action
\* copy or move and every later one a destination directly under Duplicates with
\* action duplicate_moved, unless its own processing fails; duplicates_moved,
\* copied and moved count the records of their kind.
C2_DuplicatesFolder ==
    args.dedupe = "move" =>
        /\ \A k \in Processed :
              LET f == files[k] IN
              ErrorsOf(f) = {} =>
                 \E n \in ActionsOf(f) :
                    IF EarlierSame(k) = {}
                    THEN /\ actions[n].action = PlainLabel
                         /\ NamedAfter(actions[n].dest, f, StrategyDir(f))
                    ELSE /\ actions[n].action = "duplicate_moved"
                         /\ NamedAfter(actions[n].dest, f, DuplicatesDir)
        /\ totals.duplicates_moved = CountActions("duplicate_moved")
        /\ totals.copied = CountActions("copy")
        /\ totals.moved = CountActions("move")
        /\ totals.skipped_duplicates = 0

\* a first occurrence was placed and a later identical file went to Duplicates
C2_Witness ==
    /\ Done
    /\ args.dedupe = "move"
    /\ ~args.dry_run
    /\ \E k \in 1..Len(actions), l \in 1..Len(actions) :
          /\ k < l
          /\ actions[k].hash = actions[l].hash
          /\ actions[k].action = PlainLabel
          /\ actions[l].action = "duplicate_moved"
          /\ actions[l].dest \in DOMAIN fs
    /\ totals.duplicates_moved = 1

\* the first hashed file of the scan order that holds the content of files[k]
FirstSame(k) == files[CHOOSE l \in EarlierSame(k) : \A m \in EarlierSame(k) : l <= m]

\* C3: under dedupe "delete", the step that processes a file whose content an
\* earlier hashed file of the scan order holds appends one skipped ActionRecord
\* with no destination and the first occurrence's source path as its reason,
\* adds one to totals.skipped_duplicates and to nothing else, and leaves every
\* file and directory as it was, in copy and in move mode.
C3_SkipSilently ==
    [][ ( /\ args.dedupe = "delete"
          /\ InLoop
          /\ Outcome(src, "hash", "ok") \in io'
          /\ EarlierSame(i) # {} )
        => /\ fs' = fs
           /\ dirs' = dirs
           /\ actions' = Append(actions, [source |-> src, dest |-> None,
                                          action |-> "skipped",
                                          reason |-> FirstSame(i),
                                          hash |-> Digest(Content0(src))])
           /\ totals' = [totals EXCEPT !.skipped_duplicates = @ + 1]
           /\ errors' = errors
           /\ i' = i + 1 ]_vars

\* a duplicate was skipped in a move-mode run and its source is still in place
C3_Witness ==
    /\ Done
    /\ args.dedupe = "delete"
    /\ args.move
    /\ ~args.dry_run
    /\ totals.skipped_duplicates = 1
    /\ \E k \in 1..Len(actions) :
          /\ actions[k].action = "skipped"
          /\ actions[k].source \in DOMAIN fs
          /\ actions[k].reason \notin DOMAIN fs

\* C4: under dedupe "off" every ActionRecord is a copy (a move in move mode),
\* no duplicate is skipped or sent to Duplicates, and every file that does not
\* error is recorded at its strategy folder under its own name, with a counter
\* where the name was taken; in a real run that path holds the file's content.
C4_DedupeOff ==
    args.dedupe = "off" =>
        /\ \A n \in 1..Len(actions) : actions[n].action = PlainLabel
        /\ totals.skipped_duplicates = 0
        /\ totals.duplicates_moved = 0
        /\ \A k \in Processed :
              LET f == files[k] IN
              ErrorsOf(f) = {} =>
                 \E n \in ActionsOf(f) :
                    /\ NamedAfter(actions[n].dest, f, StrategyDir(f))
                    /\ ~args.dry_run =>
                          /\ actions[n].dest \in DOMAIN fs
                          /\ fs[actions[n].dest].content = Content0(f)

\* two files of identical content were both placed by the strategy
C4_Witness ==
    /\ Done
    /\ args.dedupe = "off"
    /\ ~args.dry_run
    /\ \E k \in 1..Len(actions), l \in 1..Len(actions) :
          /\ k < l
          /\ actions[k].hash = actions[l].hash
          /\ actions[l].dest \in DOMAIN fs
          /\ actions[l].dest.dir = StrategyDir(actions[l].source)

\* C5: a dry run leaves every file and directory as the call found it, whatever
\* the strategy, dedupe policy, move mode and clean-output flag, and two
\* consecutive dry runs return the same report.
C5_DryRunFrame ==
    /\ args.dry_run => fs = fs0 /\ dirs = dirs0
    /\ \A k \in 1..(Len(reports) - 1) :
          (reports[k].settings.dry_run /\ reports[k + 1].settings.dry_run)
             => reports[k] = reports[k + 1]

\* two dry runs with clean-output set over a non-empty output root, each
\* recording an action
C5_Witness ==
    /\ Len(reports) = 2
    /\ reports[1].settings.dry_run
    /\ reports[2].settings.dry_run
    /\ args.clean_output
    /\ \E p \in DOMAIN fs : UnderOutput(p)
    /\ Len(reports[2].files) >= 1

\* C6: after a dry run and a real run with the same settings over the same
\* filesystem, every ActionRecord of the real run has the action kind and the
\* destination the dry run recorded for that file (clean-output not set, no
\* file failing).
C6_DryRunPredicts ==
    ( /\ Len(reports) >= 2
      /\ reports[1].settings.dry_run
      /\ ~reports[2].settings.dry_run
      /\ reports[2].errors = <<>>
      /\ ~args.clean_output )
    => \A n \in 1..Len(reports[2].files) :
          \E m \in 1..Len(reports[1].files) :
             /\ reports[1].files[m].source = reports[2].files[n].source
             /\ reports[1].files[m].action = reports[2].files[n].action
             /\ reports[1].files[m].dest = reports[2].files[n].dest

\* the destinations organize() may ask safe_dest about, and the files that
\* exist under the output root
Candidates ==
    {p \in DOMAIN fs : UnderOutput(p)}
    \cup {MkPath(StrategyDir(f), f.name) : f \in {p \in DOMAIN fs0 : ~UnderOutput(p)}}
    \cup {MkPath(DuplicatesDir, f.name) : f \in {p \in DOMAIN fs0 : ~UnderOutput(p)}}

\* r is d with counter n, and every smaller counter is taken
SmallestUnused(existing, d, r, n) ==
    /\ r = WithCounter(d, n)
    /\ \A m \in 1..(n - 1) : WithCounter(d, m) \in existing

\* the counter of r as a disambiguation of d, 0 for d itself
CounterOf(d, r) == IF r = d THEN 0 ELSE r.name.sfx[Len(r.name.sfx)]

\* C7: safe_dest returns the candidate itself when it does not exist, and
\* otherwise the candidate with the smallest counter n >= 1 whose path does not
\* exist; the path returned never exists at the time of the call; once that path
\* is created, the next call for the same candidate returns the smallest unused
\* counter, which is greater than the one before; and a destination chosen in
\* the loop does not exist until the file is written to it.
C7_SafeDest ==
    /\ \A d \in Candidates :
          LET E == DOMAIN fs
              r == SafeDest(E, d)
              r2 == SafeDest(E \cup {r}, d)
          IN /\ r \notin E
             /\ d \notin E => r = d
             /\ d \in E => \E n \in 1..(Cardinality(E) + 1) : SmallestUnused(E, d, r, n)
             /\ r2 \notin E \cup {r}
             /\ \E n \in 1..(Cardinality(E) + 2) : SmallestUnused(E \cup {r}, d, r2, n)
             /\ CounterOf(d, r2) > CounterOf(d, r)
    /\ pc \in {"mkdir", "transfer"} => dest \notin DOMAIN fs

\* the loop asked for the same candidate twice and the second file got the next
\* counter after the first
C7_Witness ==
    /\ Done
    /\ ~args.dry_run
    /\ \E k \in 1..Len(actions), l \in 1..Len(actions) :
          /\ k < l
          /\ actions[k].dest # None
          /\ actions[k].dest.name.sfx # <<>>
          /\ actions[l].dest = WithCounter(
                MkPath(actions[l].dest.dir, actions[l].source.name),
                CounterOf(None, actions[k].dest) + 1)
          /\ actions[k].dest = WithCounter(
                MkPath(actions[l].dest.dir, actions[l].source.name),
                CounterOf(None, actions[k].dest))

FilesUnderOutput == {p \in DOMAIN fs : UnderOutput(p)}
LastReport == reports[Len(reports)]

\* C8 as stated, for the runs in which nothing fails: after a real run with
\* strategy type and dedupe off over N >= 1 scanned files, N files are under the
\* output root and the breakdown's total is N.
C8_AsStated ==
    ( /\ Done /\ args.by = "type" /\ args.dedupe = "off" /\ ~args.dry_run
      /\ Len(files) >= 1
      /\ \A r \in io : r.out = "ok" ) =>
        /\ Cardinality(FilesUnderOutput) = Len(files)
        /\ LastReport.breakdown.total_files_in_output = Len(files)

\* C8: after a real run with strategy type and dedupe off over N scanned files,
\* the breakdown's total is N less the number of errors; when no file failed
\* and the output root held no file when the scan began, N files are under the
\* output root and the breakdown's total is N.
C8_RoundTrip ==
    (Done /\ args.by = "type" /\ args.dedupe = "off" /\ ~args.dry_run) =>
        /\ LastReport.breakdown.total_files_in_output = Len(files) - totals.errors
        /\ ( /\ errors = <<>>
             /\ args.clean_output \/ {p \in DOMAIN fs0 : UnderOutput(p)} = {} )
           => /\ Cardinality(FilesUnderOutput) = Len(files)
              /\ LastReport.breakdown.total_files_in_output = Len(files)

\* two files of the same name were organized by type into an empty output root
C8_Witness ==
    /\ Done
    /\ args.by = "type"
    /\ args.dedupe = "off"
    /\ ~args.dry_run
    /\ errors = <<>>
    /\ {p \in DOMAIN fs0 : UnderOutput(p)} = {}
    /\ Len(files) = 2
    /\ Cardinality(FilesUnderOutput) = 2
    /\ \E n \in 1..Len(actions) : actions[n].dest.name.sfx # <<>>

\* C9: in copy mode without clean-output, every file of the input tree, so
\* every scanned file, exists with the content and modification time it had
\* when the run began, at every point of the run.
C9_SourcesUntouched ==
    (~args.move /\ ~args.clean_output) =>
        \A p \in DOMAIN fs0 :
           ~UnderOutput(p) => p \in DOMAIN fs /\ fs[p] = fs0[p]

\* a duplicate was copied to Duplicates in copy mode and its source is in place
C9_Witness ==
    /\ Done
    /\ ~args.move
    /\ ~args.clean_output
    /\ ~args.dry_run
    /\ \E n \in 1..Len(actions) :
          /\ actions[n].action = "duplicate_moved"
          /\ actions[n].dest \in DOMAIN fs
          /\ actions[n].source \in DOMAIN fs

\* C10: after a real run in which no copy was cut short while writing, every
\* file under the output root that the run wrote is the destination of an
\* ActionRecord, so no failed file has left a file at its destination.
C10_NoLeftover ==
    ( /\ Done /\ ~args.dry_run /\ args.by \in Strategies
      /\ \A r \in io : r.out # "partial" ) =>
        \A p \in FilesUnderOutput :
           (p \notin DOMAIN fs0 \/ fs[p] # fs0[p])
              => \E n \in 1..Len(actions) : actions[n].dest = p

\* ---- C11 --------------------------------------------------------------------------
\* C11: a strategy or dedupe policy outside the valid values that reaches organize() is
\* fatal: it is never turned into ErrorRecords of the files, and organize() returns no
\* report for it, whatever the batch, the empty one included.
C11_ConfigErrorFatal ==
    (args.by \notin Strategies \/ args.dedupe \notin DedupePolicies) =>
        /\ errors = <<>>
        /\ ~Done

\* ---- C12 --------------------------------------------------------------------------
\* a run that must delete the output root first
CleanRun == args.clean_output /\ ~args.dry_run
\* the files under the output root when the run began
Stale == {p \in DOMAIN fs0 : UnderOutput(p)}
\* the path dest_for gave for an ActionRecord, before disambiguation
CandidateOf(a) == MkPath(a.dest.dir, a.source.name)

\* C12: with clean_output in a real run the whole output root is gone when scanning
\* begins; from then on every file under the output root was written by this run, no
\* file from before the run is still there, and a destination carries a counter only
\* because files of this run hold the names before it; when the deletion fails,
\* organize() raises with nothing scanned, recorded or changed; in a dry run every
\* file and directory from before the run stays.
C12_CleanFirst ==
    /\ (CleanRun /\ pc = "scan") =>
          /\ FilesUnderOutput = {}
          /\ \A d \in dirs : ~IsPrefix(OutputDir, d)
    /\ (CleanRun /\ Running) =>
          /\ \A p \in Stale \cap DOMAIN fs : fs[p] # fs0[p]
          /\ \A p \in FilesUnderOutput :
                fs[p].content \in {Content0(files[k]) : k \in 1..Len(files)} \cup {"partial"}
          /\ \A k \in 1..Len(actions) :
                (actions[k].dest # None /\ actions[k].dest # CandidateOf(actions[k])) =>
                    /\ CandidateOf(actions[k]) \in DOMAIN fs
                    /\ \A m \in 1..(CounterOf(CandidateOf(actions[k]), actions[k].dest) - 1) :
                          WithCounter(CandidateOf(actions[k]), m) \in DOMAIN fs
    /\ pc = "raised" =>
          /\ CleanRun
          /\ files = <<>> /\ actions = <<>> /\ errors = <<>>
          /\ Len(reports) = run - 1
          /\ \A p \in DOMAIN fs0 \ Stale : p \in DOMAIN fs /\ fs[p] = fs0[p]
    /\ args.dry_run =>
          /\ \A p \in Stale : p \in DOMAIN fs /\ fs[p] = fs0[p]
          /\ dirs0 \subseteq dirs

\* a real run with clean_output gave a file the very name a file under the output
\* root had before the run, and the content there is now the source's
C12_Witness ==
    /\ Done
    /\ CleanRun
    /\ \E k \in 1..Len(actions) :
          /\ actions[k].dest \in Stale
          /\ actions[k].dest = CandidateOf(actions[k])
          /\ fs[actions[k].dest].content = Content0(actions[k].source)
          /\ fs0[actions[k].dest].content = "old"

\* ---- C13 --------------------------------------------------------------------------
\* C13, for the real runs without clean_output in which nothing fails: every entry of
\* the report's folders_created is a directory that did not exist when the run began
\* and exists at its end, and every directory that exists at the end and did not exist
\* at the beginning is an entry.
C13_FoldersCreated ==
    (Done /\ ~args.dry_run /\ ~args.clean_output /\ errors = <<>>) =>
        LET listed == {LastReport.folders_created[k] :
                          k \in 1..Len(LastReport.folders_created)}
        IN /\ \A d \in listed : d \notin dirs0 /\ d \in dirs
           /\ \A d \in dirs \ dirs0 : d \in listed

\* ---- C14 --------------------------------------------------------------------------
\* the ActionRecords that have a destination
WithDest == {k \in 1..Len(actions) : actions[k].dest # None}
\* the first path component of a destination below the output root
FirstBelowRoot(d) == d.dir[Len(OutputDir) + 1]

\* C14: in the report, the breakdown has one key per first path component below the
\* output root of some ActionRecord's destination, the count of a key is the number of
\* ActionRecords with a destination under it, skipped records (no destination) count
\* nowhere, and total_files_in_output is the number of ActionRecords with a
\* destination, which is totals.copied + totals.moved + totals.duplicates_moved.
C14_Breakdown ==
    Done =>
        LET b == LastReport.breakdown
            t == LastReport.totals
        IN /\ LastReport.files = actions
           /\ DOMAIN b.counts = {FirstBelowRoot(actions[k].dest) : k \in WithDest}
           /\ \A f \in DOMAIN b.counts :
                 b.counts[f] =
                    Cardinality({k \in WithDest : FirstBelowRoot(actions[k].dest) = f})
           /\ b.total_files_in_output = Cardinality(WithDest)
           /\ b.total_files_in_output = t.copied + t.moved + t.duplicates_moved
           /\ \A k \in 1..Len(actions) :
                 actions[k].action = "skipped" <=> k \notin WithDest

\* a report over a skipped duplicate and a file placed two folders below the root
C14_Witness ==
    /\ Done
    /\ \E k \in 1..Len(actions) : actions[k].action = "skipped"
    /\ \E k \in WithDest : Len(actions[k].dest.dir) = Len(OutputDir) + 2
    /\ LastReport.breakdown.total_files_in_output = 1

\* ---- C15 --------------------------------------------------------------------------
Labels == {"copy", "move", "skipped", "duplicate_moved"}
Terminated == pc \in {"done", "raised"}

\* the position of organize() within one call
PcRank(p) ==
    CASE p = "clean" -> 0
      [] p = "scan" -> 1
      [] p = "loop" -> 2
      [] p = "mkdir" -> 3
      [] p = "transfer" -> 4
      [] p = "unlink" -> 5
      [] OTHER -> 6

\* the records of a file in a list of ActionRecords and a list of ErrorRecords
RecordsOf(f, as, es) ==
    Cardinality({n \in 1..Len(as) : as[n].source = f})
    + Cardinality({n \in 1..Len(es) : es[n].source = f})

C15_Records ==
    /\ Running =>
          /\ \A k \in 1..Len(files) :
                RecordsOf(files[k], actions, errors) = (IF k \in Processed THEN 1 ELSE 0)
          /\ \A n \in 1..Len(actions) : actions[n].action \in Labels
    /\ Done =>
          LET r == LastReport
              t == r.totals
              Count(label) == Cardinality({n \in 1..Len(r.files) : r.files[n].action = label})
          IN /\ \A k \in 1..Len(files) : RecordsOf(files[k], r.files, r.errors) = 1
             /\ t.copied = Count("copy")
             /\ t.moved = Count("move")
             /\ t.skipped_duplicates = Count("skipped")
             /\ t.duplicates_moved = Count("duplicate_moved")
             /\ t.errors = Len(r.errors)
             /\ t.scanned_files = Len(files)
             /\ t.scanned_files = t.copied + t.moved + t.skipped_duplicates
                                     + t.duplicates_moved + t.errors

\* a step moves organize() forward and keeps the records it has written
C15_Advances ==
    \/ run' > run
    \/ /\ run' = run
       /\ \/ i' > i
          \/ i' = i /\ PcRank(pc') > PcRank(pc)
       /\ Len(actions') >= Len(actions) /\ SubSeq(actions', 1, Len(actions)) = actions
       /\ Len(errors') >= Len(errors) /\ SubSeq(errors', 1, Len(errors)) = errors

\* C15: every scanned file reaches exactly one terminal state and the run ends: a
\* processed file has exactly one record (ActionRecord or ErrorRecord), a file not yet
\* processed has none, a record once written stays; every step advances the position
\* (run, i, pc), which is bounded, and a step is possible until organize() has returned
\* or raised; in the report each totals counter is the number of records of its kind
\* and scanned_files is the sum of the five counters.
C15_OneTerminalState ==
    /\ [](C15_Records)
    /\ [](Terminated \/ ENABLED Next)
    /\ [][C15_Advances]_vars

\* a report over two files, one moved and one with an ErrorRecord
C15_Witness ==
    /\ Done
    /\ Len(files) = 2
    /\ Len(LastReport.errors) = 1
    /\ Len(LastReport.files) = 1
    /\ LastReport.files[1].action = "move"

\* ---- C16 --------------------------------------------------------------------------
\* the step removes the source of the duplicate being processed
C16_SourceRemoved ==
    /\ pc \in {"mkdir", "transfer", "unlink"}
    /\ action_label = "duplicate_moved"
    /\ src \in DOMAIN fs
    /\ src \notin DOMAIN fs'

C16_Sources ==
    ~args.dry_run =>
        /\ \A n \in 1..Len(errors) :
              errors[n].error = "copy" => errors[n].source \in DOMAIN fs
        /\ \A n \in 1..Len(actions) :
              actions[n].action = "duplicate_moved" =>
                  /\ actions[n].dest \in DOMAIN fs
                  /\ fs[actions[n].dest].content = Content0(actions[n].source)
                  /\ args.move => actions[n].source \notin DOMAIN fs
                  /\ ~args.move =>
                        /\ actions[n].source \in DOMAIN fs
                        /\ fs[actions[n].source] = fs0[actions[n].source]

\* C16: the source of a duplicate_moved file is removed only in move mode, only by the
\* unlink that follows a copy which succeeded and left the source's content at the
\* destination under Duplicates, never by the step that writes the destination; a
\* file whose copy failed keeps its source; in copy mode the source of a
\* duplicate_moved record is still there, unchanged.
C16_CopyThenDelete ==
    /\ [](C16_Sources)
    /\ [][ C16_SourceRemoved =>
              /\ args.move
              /\ pc = "unlink"
              /\ Outcome(src, "copy", "ok") \in io
              /\ dest.dir = DuplicatesDir
              /\ dest \in DOMAIN fs
              /\ fs[dest] = fs[src]
              /\ fs'[dest] = fs[src] ]_vars

\* in move mode a duplicate was copied to Duplicates and its source then removed
C16_Witness ==
    /\ Done
    /\ args.move
    /\ ~args.dry_run
    /\ \E n \in 1..Len(actions) :
          /\ actions[n].action = "duplicate_moved"
          /\ actions[n].source \notin DOMAIN fs
          /\ actions[n].dest \in DOMAIN fs
          /\ Outcome(actions[n].source, "unlink", "ok") \in io

\* ---- C17 --------------------------------------------------------------------------
\* the hash of the content files[k] held when the run began
Hash0(k) == Digest(Content0(files[k]))
\* the files the loop has taken up, the current one included
TakenUp == {k \in 1..Len(files) : k <= i}

C17_Index ==
    Running =>
        /\ \A k \in 1..Len(files), l \in 1..Len(files) :
              k < l => PathLess(files[k], files[l])
        /\ \A e \in seen_hashes :
              \E k \in TakenUp :
                 /\ e.src = files[k]
                 /\ HashedOK(files[k]) /\ Hash0(k) = e.hash
                 /\ \A l \in 1..(k - 1) : ~(HashedOK(files[l]) /\ Hash0(l) = e.hash)
        /\ \A e1 \in seen_hashes, e2 \in seen_hashes : e1.hash = e2.hash => e1 = e2
        /\ \A k \in Processed : HashedOK(files[k]) => IsDup(Hash0(k))
        /\ InLoop => (IsDup(sha256(src)) <=> EarlierSame(i) # {})

\* C17: within one call the index of seen hashes only grows, so an entry once set is
\* never changed or removed; at every point of the loop the scan list is in ascending
\* path order, there is one entry per hash, its representative is the first file of
\* the scan list that was hashed successfully to that hash, every file hashed so far
\* has its hash in the index, and the file about to be processed is found in the index
\* exactly when an earlier file of the scan list hashed successfully to its hash.
C17_SeenHashes ==
    /\ [](C17_Index)
    /\ [][run' = run => seen_hashes \subseteq seen_hashes']_vars

\* two files with the same content were hashed and the index holds the first one only
C17_Witness ==
    /\ Done
    /\ Len(files) = 2
    /\ HashedOK(files[1]) /\ HashedOK(files[2])
    /\ Hash0(1) = Hash0(2)
    /\ seen_hashes = {[hash |-> Hash0(1), src |-> files[1]]}

\* ---- C18 --------------------------------------------------------------------------
C18_Destinations ==
    ~args.dry_run =>
        /\ \A k \in WithDest, l \in WithDest : k # l => actions[k].dest # actions[l].dest
        /\ pc \in {"mkdir", "transfer"} =>
              /\ dest \notin DOMAIN fs
              /\ \A k \in WithDest : actions[k].dest # dest
        /\ ~args.clean_output => \A p \in Stale : p \in DOMAIN fs /\ fs[p] = fs0[p]
        /\ \A k \in WithDest :
              /\ actions[k].dest \in DOMAIN fs
              /\ fs[actions[k].dest].content = Content0(actions[k].source)

\* a step of a real run after the clean-output step leaves every existing file as it
\* is or removes it, and creates a file only at the destination chosen for the
\* current source
C18_WritesFresh ==
    (~args.dry_run /\ pc # "clean" /\ run' = run) =>
        /\ \A p \in DOMAIN fs \cap DOMAIN fs' : fs'[p] = fs[p]
        /\ \A p \in DOMAIN fs' \ DOMAIN fs : pc = "transfer" /\ p = dest

\* C18: in a real run no copy or move writes to a path that holds a file: every write
\* creates a path that did not exist, the chosen destination does not exist until it
\* is written, the destinations of the ActionRecords are pairwise distinct and each
\* still holds its own source's content, and without clean_output every file that was
\* under the output root before the run is unchanged.
C18_NoOverwrite ==
    /\ [](C18_Destinations)
    /\ [][C18_WritesFresh]_vars

\* two files with different content and the same name went to the same folder of an
\* empty output root: the first keeps the name, the second gets name_1
C18_Witness ==
    /\ Done
    /\ ~args.dry_run
    /\ Stale = {}
    /\ Len(actions) = 2
    /\ WithDest = {1, 2}
    /\ actions[1].hash # actions[2].hash
    /\ CandidateOf(actions[1]) = CandidateOf(actions[2])
    /\ actions[1].dest = CandidateOf(actions[1])
    /\ actions[2].dest = WithCounter(CandidateOf(actions[1]), 1)
    /\ fs[actions[1].dest].content # fs[actions[2].dest].content

\* ---- C19 --------------------------------------------------------------------------
\* C19, for real runs: every ActionRecord with action skipped or duplicate_moved comes
\* after an ActionRecord with the same hash and action copy or move, whose destination
\* holds the content.
C19_PlacedOriginal ==
    ~args.dry_run =>
        \A n \in 1..Len(actions) :
            actions[n].action \in {"skipped", "duplicate_moved"} =>
                \E m \in 1..(n - 1) :
                   /\ actions[m].hash = actions[n].hash
                   /\ actions[m].action \in {"copy", "move"}
                   /\ actions[m].dest \in DOMAIN fs
                   /\ Digest(fs[actions[m].dest].content) = actions[n].hash

\* ---- C20 --------------------------------------------------------------------------
\* C20: without clean_output, in every state of a run, the content each scanned file
\* held when the run began is held by a file at a scanned source path or under the
\* output root.
C20_NoContentLost ==
    (Running /\ ~args.clean_output) =>
        \A k \in 1..Len(files) :
           \E p \in DOMAIN fs :
              /\ fs[p].content = Content0(files[k])
              /\ UnderOutput(p) \/ \E l \in 1..Len(files) : p = files[l]

\* in move mode, with a failure on one file, a source is gone and its content is
\* held only under the output root
C20_Witness ==
    /\ Running
    /\ ~args.clean_output
    /\ args.move
    /\ errors # <<>>
    /\ \E k \in 1..Len(files) :
          /\ files[k] \notin DOMAIN fs
          /\ \A p \in DOMAIN fs : fs[p].content = Content0(files[k]) => UnderOutput(p)


====
